---- MODULE Spec2Model ----
(***************************************************************************)
(* Model of the ICS-205 PDF to CHIRP CSV conversion pipeline of            *)
(* src/worker/ics205-parser.js (the OpenAI + Gradient version, lines       *)
(* 326-920): convertICS205ToChirp and the functions it calls.              *)
(*                                                                         *)
(* Text is modelled as sequences of one-character strings; a frequency as  *)
(* a whole part and a number of millionths; a model completion as a        *)
(* sequence of tokens (prose, fence, brackets, JSON values).               *)
(*                                                                         *)
(* Intermediate values are passed as operator arguments and bound by       *)
(* quantifiers instead of LET, so that every definition is evaluated at    *)
(* few places.                                                             *)
(***************************************************************************)
EXTENDS Integers, Sequences, FiniteSets, TLC

\* ------------------------------------------------------------------------
\* Bounds of the model
\* ------------------------------------------------------------------------
\* longest array a model reply may carry
MaxRecs == 2
\* most lines of an extracted text
MaxLines == 2

\* ------------------------------------------------------------------------
\* Characters and strings (a string is a sequence of 1-character strings)
\* ------------------------------------------------------------------------
Digits == <<"0", "1", "2", "3", "4", "5", "6", "7", "8", "9">>

UpperCase == <<"A", "B", "C", "D", "E", "F", "G", "H", "I", "J", "K", "L", "M",
               "N", "O", "P", "Q", "R", "S", "T", "U", "V", "W", "X", "Y", "Z">>

LowerCase == <<"a", "b", "c", "d", "e", "f", "g", "h", "i", "j", "k", "l", "m",
               "n", "o", "p", "q", "r", "s", "t", "u", "v", "w", "x", "y", "z">>

IsDigit(c) == \E d \in 1..10 : Digits[d] = c

DigitVal(c) == (CHOOSE d \in 1..10 : Digits[d] = c) - 1

\* String.prototype.toLowerCase, one character
LowerChar(c) ==
    IF \E i \in 1..26 : UpperCase[i] = c
    THEN LowerCase[CHOOSE i \in 1..26 : UpperCase[i] = c]
    ELSE c

ToLowerCase(s) == [i \in 1..Len(s) |-> LowerChar(s[i])]

\* whitespace as matched by \s and removed by trim()
IsSpace(c) == c \in {" ", "\t", "\n", "\r"}

\* String.prototype.substring(from, to) for 0 <= from <= to: 0-based, end
\* exclusive, both clamped to the length
Substring(s, from, to) ==
    SubSeq(s, (IF from < Len(s) THEN from ELSE Len(s)) + 1,
           IF to < Len(s) THEN to ELSE Len(s))

RECURSIVE NatToStr(_)
\* decimal digits of a natural number
NatToStr(n) ==
    IF n < 10 THEN <<Digits[n + 1]>>
    ELSE NatToStr(n \div 10) \o <<Digits[(n % 10) + 1]>>

RECURSIVE Join(_, _)
\* Array.prototype.join of an array of strings
Join(parts, sep) ==
    IF Len(parts) = 0 THEN <<>>
    ELSE IF Len(parts) = 1 THEN parts[1]
    ELSE parts[1] \o sep \o Join(Tail(parts), sep)

\* number of occurrences of character c in s
Count(s, c) == Cardinality({i \in 1..Len(s) : s[i] = c})

\* ------------------------------------------------------------------------
\* Numbers: a JS number is [nan, i, f] and stands for i + f / 1e6, with
\* 0 <= f < 1e6 (six decimals, the resolution of toFixed(6))
\* ------------------------------------------------------------------------
Micro == 1000000

NaN == [nan |-> TRUE, i |-> 0, f |-> 0]
Num(i, f) == [nan |-> FALSE, i |-> i, f |-> f]

\* -x
Neg(x) == IF x.f = 0 THEN Num(0 - x.i, 0) ELSE Num(0 - x.i - 1, Micro - x.f)

\* x - y
Sub(x, y) ==
    IF x.f >= y.f THEN Num(x.i - y.i, x.f - y.f)
    ELSE Num(x.i - y.i - 1, x.f - y.f + Micro)

\* x < y, x <= y
Lt(x, y) == x.i < y.i \/ (x.i = y.i /\ x.f < y.f)
Le(x, y) == x.i < y.i \/ (x.i = y.i /\ x.f <= y.f)

\* Math.abs(x)
Abs(x) == IF x.i < 0 THEN Neg(x) ELSE x

\* length of the run of digits of s that starts at index i
DigitRun(s, i) ==
    CHOOSE k \in 0..Len(s) :
        /\ i + k - 1 <= Len(s)
        /\ \A j \in i..(i + k - 1) : IsDigit(s[j])
        /\ (i + k <= Len(s) => ~IsDigit(s[i + k]))

RECURSIVE DigitsVal(_)
\* value of a sequence of digits
DigitsVal(ds) ==
    IF Len(ds) = 0 THEN 0
    ELSE 10 * DigitsVal(SubSeq(ds, 1, Len(ds) - 1)) + DigitVal(ds[Len(ds)])

\* the fraction digits fs as millionths (digits after the sixth are below
\* the resolution of the model)
FracVal(fs) == DigitsVal([i \in 1..6 |-> IF i <= Len(fs) THEN fs[i] ELSE "0"])

\* parseFloat, the digits: ni integer digits from index i, nf fraction
\* digits after the point; NaN when there is no digit
ParseDigits(s, i, ni, nf, neg) ==
    IF ni + nf = 0 THEN NaN
    ELSE IF neg
    THEN Neg(Num(DigitsVal(SubSeq(s, i, i + ni - 1)),
                 FracVal(SubSeq(s, i + ni + 1, i + ni + nf))))
    ELSE Num(DigitsVal(SubSeq(s, i, i + ni - 1)),
             FracVal(SubSeq(s, i + ni + 1, i + ni + nf)))

\* parseFloat, the fraction after ni integer digits that start at index i
ParseFraction(s, i, ni, neg) ==
    ParseDigits(s, i, ni,
                IF i + ni <= Len(s) /\ s[i + ni] = "."
                THEN DigitRun(s, i + ni + 1) ELSE 0,
                neg)

\* parseFloat, after lead characters of leading whitespace: optional sign
ParseSigned(s, lead) ==
    IF lead < Len(s) /\ s[lead + 1] \in {"+", "-"}
    THEN ParseFraction(s, lead + 2, DigitRun(s, lead + 2), s[lead + 1] = "-")
    ELSE ParseFraction(s, lead + 1, DigitRun(s, lead + 1), FALSE)

\* parseFloat(string): leading whitespace, optional sign, digits, optional
\* fraction; the longest numeric prefix is used, NaN when there is none
ParseFloat(s) ==
    ParseSigned(s, CHOOSE k \in 0..Len(s) :
                       /\ \A j \in 1..k : IsSpace(s[j])
                       /\ (k < Len(s) => ~IsSpace(s[k + 1])))

\* the digits of a number that is not negative, six decimals
Magnitude(a) == NatToStr(a.i) \o <<".">> \o Tail(NatToStr(Micro + a.f))

\* Number.prototype.toFixed(6)
ToFixed6(x) ==
    IF x.nan THEN <<"N", "a", "N">>
    ELSE IF x.i < 0 THEN <<"-">> \o Magnitude(Neg(x))
    ELSE Magnitude(x)

\* ------------------------------------------------------------------------
\* JSON values of a record's fields and elements of a reply array
\* ------------------------------------------------------------------------
StrV(s) == [t |-> "str", s |-> s, n |-> 0]
NullV == [t |-> "null", s |-> <<>>, n |-> 0]
NumV(n) == [t |-> "num", s |-> <<>>, n |-> n]

\* JS truthiness of a field value (the left operand of ||)
Truthy(v) ==
    CASE v.t = "null" -> FALSE
      [] v.t = "str" -> v.s # <<>>
      [] v.t = "num" -> v.n # 0

\* String(v) of a truthy field value
ToStr(v) == IF v.t = "str" THEN v.s ELSE NatToStr(v.n)

\* a JSON object element with the six fields of the prompt's schema
Obj(name, rxFreq, txFreq, tone, mode, remarks) ==
    [k |-> "obj", name |-> name, rxFreq |-> rxFreq, txFreq |-> txFreq,
     tone |-> tone, mode |-> mode, remarks |-> remarks]

\* the JSON element null
NullElem ==
    [k |-> "null", name |-> NullV, rxFreq |-> NullV, txFreq |-> NullV,
     tone |-> NullV, mode |-> NullV, remarks |-> NullV]

\* ------------------------------------------------------------------------
\* convertToChirpCSV
\* ------------------------------------------------------------------------
\* the 14 column names of the CHIRP CSV header
HeaderColumns ==
    <<<<"L", "o", "c", "a", "t", "i", "o", "n">>,
      <<"N", "a", "m", "e">>,
      <<"F", "r", "e", "q", "u", "e", "n", "c", "y">>,
      <<"D", "u", "p", "l", "e", "x">>,
      <<"O", "f", "f", "s", "e", "t">>,
      <<"T", "o", "n", "e">>,
      <<"r", "T", "o", "n", "e", "F", "r", "e", "q">>,
      <<"c", "T", "o", "n", "e", "F", "r", "e", "q">>,
      <<"D", "t", "c", "s", "C", "o", "d", "e">>,
      <<"D", "t", "c", "s", "P", "o", "l", "a", "r", "i", "t", "y">>,
      <<"M", "o", "d", "e">>,
      <<"T", "S", "t", "e", "p">>,
      <<"S", "k", "i", "p">>,
      <<"C", "o", "m", "m", "e", "n", "t">>>>

Comma == <<",">>
Newline == <<"\n">>

\* `Channel ${n}`
ChannelN(n) == <<"C", "h", "a", "n", "n", "e", "l", " ">> \o NatToStr(n)

\* replace(',', ';'): only the first comma is replaced
ReplaceCommas_First(s) ==
    [i \in 1..Len(s) |->
        IF s[i] = "," /\ \A j \in 1..(i - 1) : s[j] # "," THEN ";" ELSE s[i]]

\* String.prototype.replace(/,/g, ';')
ReplaceCommas(s) == [i \in 1..Len(s) |-> IF s[i] = "," THEN ";" ELSE s[i]]

\* the map callback throws a TypeError: the element is null, or the value
\* that .substring / .replace is called on is not a string
RowThrows(freq) ==
    \/ freq.k = "null"
    \/ (Truthy(freq.name) /\ freq.name.t # "str")
    \/ (Truthy(freq.remarks) /\ freq.remarks.t # "str")

\* (freq.name || `Channel ${index + 1}`).substring(0, 16)
RowName(freq, index) ==
    Substring(IF Truthy(freq.name) THEN freq.name.s ELSE ChannelN(index + 1),
              0, 16)

\* parseFloat(freq.rxFreq || '0')
RowRxFreq(freq) ==
    ParseFloat(IF Truthy(freq.rxFreq) THEN ToStr(freq.rxFreq) ELSE <<"0">>)

\* parseFloat(freq.txFreq || freq.rxFreq || '0')
RowTxFreq(freq) ==
    ParseFloat(IF Truthy(freq.txFreq) THEN ToStr(freq.txFreq)
               ELSE IF Truthy(freq.rxFreq) THEN ToStr(freq.rxFreq)
               ELSE <<"0">>)

\* txFreq - rxFreq
RowDiff(rxFreq, txFreq) ==
    IF rxFreq.nan \/ txFreq.nan THEN NaN ELSE Sub(txFreq, rxFreq)

\* duplex: '+' for diff > 0, '-' for diff < 0, '' when rxFreq === txFreq or
\* diff is NaN
RowDuplex(rxFreq, txFreq, diff) ==
    IF ~(rxFreq.nan \/ txFreq.nan \/ rxFreq # txFreq) THEN <<>>
    ELSE IF ~diff.nan /\ Lt(Num(0, 0), diff) THEN <<"+">>
    ELSE IF ~diff.nan /\ Lt(diff, Num(0, 0)) THEN <<"-">>
    ELSE <<>>

\* offset: Math.abs(diff).toFixed(6) in the two branches that set duplex,
\* '0.000000' otherwise
RowOffset(rxFreq, txFreq, diff) ==
    IF ~(rxFreq.nan \/ txFreq.nan \/ rxFreq # txFreq)
    THEN <<"0", ".", "0", "0", "0", "0", "0", "0">>
    ELSE IF ~diff.nan /\ (Lt(Num(0, 0), diff) \/ Lt(diff, Num(0, 0)))
    THEN ToFixed6(Abs(diff))
    ELSE <<"0", ".", "0", "0", "0", "0", "0", "0">>

\* the Tone column set for every record
RowTone_Always(freq) == <<"T", "o", "n", "e">>

\* freq.tone ? 'Tone' : ''
RowTone(freq) == IF Truthy(freq.tone) THEN <<"T", "o", "n", "e">> ELSE <<>>

\* freq.tone || '88.5' (rToneFreq and cToneFreq)
RowToneFreq(freq) ==
    IF Truthy(freq.tone) THEN ToStr(freq.tone) ELSE <<"8", "8", ".", "5">>

\* freq.mode || 'FM'
RowMode(freq) == IF Truthy(freq.mode) THEN ToStr(freq.mode) ELSE <<"F", "M">>

\* (freq.remarks || '').replace(/,/g, ';').substring(0, 256)
RowComment(freq) ==
    Substring(ReplaceCommas(IF Truthy(freq.remarks) THEN freq.remarks.s
                            ELSE <<>>),
              0, 256)

\* the array that is joined into the row, given the two parsed frequencies
RowArray(freq, index, rxFreq, txFreq) ==
    <<NatToStr(index), RowName(freq, index), ToFixed6(rxFreq),
      RowDuplex(rxFreq, txFreq, RowDiff(rxFreq, txFreq)),
      RowOffset(rxFreq, txFreq, RowDiff(rxFreq, txFreq)),
      RowTone(freq), RowToneFreq(freq), RowToneFreq(freq),
      <<"0", "2", "3">>, <<"N", "N">>, RowMode(freq),
      <<"5", ".", "0", "0">>, <<>>, RowComment(freq)>>

\* the fields of the row of element freq at 0-based position index
RowFields(freq, index) ==
    RowArray(freq, index, RowRxFreq(freq), RowTxFreq(freq))

\* convertToChirpCSV(frequencies): [threw, csv]
convertToChirpCSV(frequencies) ==
    IF \E i \in 1..Len(frequencies) : RowThrows(frequencies[i])
    THEN [threw |-> TRUE, csv |-> <<>>]
    ELSE [threw |-> FALSE,
          csv |-> Join(<<Join(HeaderColumns, Comma)>>
                       \o [i \in 1..Len(frequencies) |->
                              Join(RowFields(frequencies[i], i - 1), Comma)],
                       Newline)]

\* ------------------------------------------------------------------------
\* fallbackParsing: regex-based extraction from the extracted text
\* ------------------------------------------------------------------------
\* \w of a regular expression
IsWord(c) ==
    \/ IsDigit(c)
    \/ c = "_"
    \/ \E i \in 1..26 : UpperCase[i] = c \/ LowerCase[i] = c

\* String.prototype.trim
Trim(s) ==
    IF \A i \in 1..Len(s) : IsSpace(s[i]) THEN <<>>
    ELSE SubSeq(s,
                CHOOSE i \in 1..Len(s) :
                    ~IsSpace(s[i]) /\ \A j \in 1..(i - 1) : IsSpace(s[j]),
                CHOOSE i \in 1..Len(s) :
                    ~IsSpace(s[i]) /\ \A j \in (i + 1)..Len(s) : IsSpace(s[j]))

\* String.prototype.includes
Includes(s, sub) ==
    \E i \in 0..(Len(s) - Len(sub)) : SubSeq(s, i + 1, i + Len(sub)) = sub

RECURSIVE SplitAt(_, _)
\* text.split('\n') of a text whose first line break is at index i
\* (i = 0: no line break)
SplitAt(text, i) ==
    IF i = 0 THEN <<text>>
    ELSE <<SubSeq(text, 1, i - 1)>>
         \o SplitAt(SubSeq(text, i + 1, Len(text)),
                    IF \E k \in (i + 1)..Len(text) : text[k] = "\n"
                    THEN (CHOOSE k \in (i + 1)..Len(text) :
                              /\ text[k] = "\n"
                              /\ \A j \in (i + 1)..(k - 1) : text[j] # "\n") - i
                    ELSE 0)

\* text.split('\n')
SplitLines(text) ==
    SplitAt(text,
            IF \E k \in 1..Len(text) : text[k] = "\n"
            THEN CHOOSE k \in 1..Len(text) :
                     text[k] = "\n" /\ \A j \in 1..(k - 1) : text[j] # "\n"
            ELSE 0)

\* the fraction of a match: a whole run of 1..fhi digits that ends at a
\* word boundary; the length of the match, 0 when there is none
MatchFraction(s, i, ni, nf, fhi) ==
    IF /\ nf >= 1 /\ nf <= fhi
       /\ (i + ni + nf + 1 <= Len(s) => ~IsWord(s[i + ni + nf + 1]))
    THEN ni + 1 + nf
    ELSE 0

\* the integer digits of a match: a whole run of lo..hi digits that starts
\* at a word boundary and is followed by a point
MatchInteger(s, i, ni, lo, hi, fhi) ==
    IF /\ (i = 1 \/ ~IsWord(s[i - 1]))
       /\ ni >= lo /\ ni <= hi
       /\ i + ni <= Len(s) /\ s[i + ni] = "."
    THEN MatchFraction(s, i, ni, DigitRun(s, i + ni + 1), fhi)
    ELSE 0

\* length of the match of /\b(\d{lo,hi}\.\d{1,fhi})\b/ that starts at index
\* i of s, 0 when there is none
MatchLenAt(s, i, lo, hi, fhi) == MatchInteger(s, i, DigitRun(s, i), lo, hi, fhi)

RECURSIVE MatchAll(_, _, _, _, _)
RECURSIVE MatchFrom(_, _, _, _, _, _)
\* the matches from index p on, n being the length of the match at p
MatchFrom(s, p, n, lo, hi, fhi) ==
    IF n > 0
    THEN <<SubSeq(s, p, p + n - 1)>> \o MatchAll(s, p + n, lo, hi, fhi)
    ELSE MatchAll(s, p + 1, lo, hi, fhi)

\* s.match(pattern) with the g flag, scanning from index p: the matches in
\* order (the empty sequence stands for null)
MatchAll(s, p, lo, hi, fhi) ==
    IF p > Len(s) THEN <<>>
    ELSE MatchFrom(s, p, MatchLenAt(s, p, lo, hi, fhi), lo, hi, fhi)

\* freqPattern = /\b(\d{2,4}\.\d{1,4})\b/g
FreqMatches(line) == MatchAll(line, 1, 2, 4, 4)

\* tonePattern = /\b(\d{2,3}\.\d{1})\b/g
ToneMatches(line) == MatchAll(line, 1, 2, 3, 1)

\* num >= 30 && num <= 3000
IsRadioFreq(num) == Le(Num(30, 0), num) /\ Le(num, Num(3000, 0))

\* ValidFreqs without the filter: every match is kept
ValidFreqs_All(freqMatches) == freqMatches

\* freqMatches.filter(freq => { num = parseFloat(freq); ... })
ValidFreqs(freqMatches) ==
    SelectSeq(freqMatches, LAMBDA freq : IsRadioFreq(ParseFloat(freq)))

\* IsToneFreq without the range test
IsToneFreq_Any(toneNum) == TRUE

\* toneNum >= 67 && toneNum <= 254.1
IsToneFreq(toneNum) == Le(Num(67, 0), toneNum) /\ Le(toneNum, Num(254, 100000))

\* the tone, given line.match(tonePattern): the first match when it lies in
\* [67, 254.1], else null
ToneOf(toneMatches) ==
    IF Len(toneMatches) > 0 /\ IsToneFreq(ParseFloat(toneMatches[1]))
    THEN StrV(toneMatches[1])
    ELSE NullV

\* the tone of a line
LineTone(line) == ToneOf(ToneMatches(line))

\* s.split(/\s{2,}/)[0]
FirstSegment(s) ==
    IF \E i \in 1..(Len(s) - 1) : IsSpace(s[i]) /\ IsSpace(s[i + 1])
    THEN SubSeq(s, 1,
                (CHOOSE k \in 1..(Len(s) - 1) :
                     /\ IsSpace(s[k]) /\ IsSpace(s[k + 1])
                     /\ \A j \in 1..(k - 1) :
                            ~(IsSpace(s[j]) /\ IsSpace(s[j + 1]))) - 1)
    ELSE s

\* a character of the class [\d\s\.\-]
IsLeader(c) == IsDigit(c) \/ IsSpace(c) \/ c \in {".", "-"}

\* s.replace(/^[\d\s\.\-]+/, '')
StripLeading(s) ==
    SubSeq(s,
           (CHOOSE n \in 0..Len(s) :
                /\ \A j \in 1..n : IsLeader(s[j])
                /\ (n < Len(s) => ~IsLeader(s[n + 1]))) + 1,
           Len(s))

\* if (!name || name.length < 2) name = `Channel ${frequencies.length + 1}`
NameOrDefault(name, count) ==
    IF Len(name) < 2 THEN ChannelN(count + 1) ELSE name

\* the channel name of a line; count is frequencies.length at that point
LineName(line, count) ==
    NameOrDefault(Trim(StripLeading(Trim(FirstSegment(Substring(line, 0, 30))))),
                  count)

\* line.length > 50 ? line.substring(50, 100).trim() : null
LineRemarks(line) ==
    IF Len(line) > 50 THEN StrV(Trim(Substring(line, 50, 100))) ELSE NullV

\* the lower-cased line is a table header or the form's heading
IsHeading(lower) ==
    \/ /\ Includes(lower, <<"f", "r", "e", "q", "u", "e", "n", "c", "y">>)
       /\ Includes(lower, <<"c", "h", "a", "n", "n", "e", "l">>)
    \/ Includes(lower, <<"r", "a", "d", "i", "o", " ", "c", "o", "m", "m", "u", "n", "i", "c", "a", "t", "i", "o", "n", "s", " ", "p", "l", "a", "n">>)

\* SkipLine that skips no line
SkipLine_Never(line) == FALSE

\* the line is skipped before any pattern is tried
SkipLine(line) == Len(line) < 5 \/ IsHeading(ToLowerCase(line))

\* the line (already trimmed) yields a record
LineHasRecord(line) ==
    ~SkipLine(line) /\ Len(ValidFreqs(FreqMatches(line))) > 0

\* the record pushed for a line, given its valid frequencies
LineRecord(line, validFreqs, count) ==
    Obj(StrV(LineName(line, count)),
        StrV(validFreqs[1]),
        StrV(IF Len(validFreqs) >= 2 THEN validFreqs[2] ELSE validFreqs[1]),
        LineTone(line), StrV(<<"F", "M">>), LineRemarks(line))

\* one iteration of the loop for a trimmed line
ParseLine(line, frequencies) ==
    IF LineHasRecord(line)
    THEN Append(frequencies,
                LineRecord(line, ValidFreqs(FreqMatches(line)),
                           Len(frequencies)))
    ELSE frequencies

RECURSIVE ParseLines(_, _)
\* the loop over the lines, frequencies being the records pushed so far
ParseLines(lines, frequencies) ==
    IF Len(lines) = 0 THEN frequencies
    ELSE ParseLines(Tail(lines), ParseLine(Trim(lines[1]), frequencies))

\* the end of fallbackParsing without the throw: an empty list is returned
FallbackResult_Empty(frequencies) ==
    [threw |-> FALSE, recs |-> frequencies]

\* the end of fallbackParsing: it throws when no record was pushed
FallbackResult(frequencies) ==
    [threw |-> Len(frequencies) = 0, recs |-> frequencies]

\* fallbackParsing(text): [threw, recs]
fallbackParsing(text) == FallbackResult(ParseLines(SplitLines(text), <<>>))

\* ------------------------------------------------------------------------
\* Model replies: a completion is a sequence of tokens
\* ------------------------------------------------------------------------
\* prose without brackets, a ``` fence, the two brackets, a JSON value
Tok(kind) == [tok |-> kind, e |-> NullElem]
Val(e) == [tok |-> "v", e |-> e]
Prose == Tok("t")
Fence == Tok("f")
LBracket == Tok("[")
RBracket == Tok("]")

\* index of the first "[" of a completion that has one
FirstOpen(completion) ==
    CHOOSE i \in 1..Len(completion) :
        /\ completion[i] = LBracket
        /\ \A j \in 1..(i - 1) : completion[j] # LBracket

\* index of the last "]" of a completion that has one
LastClose(completion) ==
    CHOOSE i \in 1..Len(completion) :
        /\ completion[i] = RBracket
        /\ \A j \in (i + 1)..Len(completion) : completion[j] # RBracket

\* completion.match(/\[[\s\S]*\]/): from the first "[" to the last "]"
\* (greedy); the empty sequence stands for null
JsonMatch(completion) ==
    IF ~\E i \in 1..Len(completion) : completion[i] = LBracket THEN <<>>
    ELSE IF ~\E i \in (FirstOpen(completion) + 1)..Len(completion) :
                 completion[i] = RBracket
    THEN <<>>
    ELSE SubSeq(completion, FirstOpen(completion), LastClose(completion))

\* the pairs <<fence, bracket>> of positions between which
\* /```(?:json)?\s*(\[[\s\S]*\])\s*```/ can match: a fence, "[", ..., "]",
\* a fence
MarkdownPairs(completion) ==
    {p \in (1..Len(completion)) \X (1..Len(completion)) :
         /\ p[1] + 1 < p[2]
         /\ completion[p[1]] = Fence
         /\ completion[p[1] + 1] = LBracket
         /\ completion[p[2]] = RBracket
         /\ p[2] < Len(completion)
         /\ completion[p[2] + 1] = Fence}

\* the match the regular expression takes: leftmost start, longest group
MarkdownBest(pairs) ==
    CHOOSE p \in pairs :
        \A q \in pairs : p[1] < q[1] \/ (p[1] = q[1] /\ q[2] <= p[2])

\* markdownMatch[1], group 1 of the markdown pattern (tried only when
\* JsonMatch found nothing); the empty sequence stands for null
MarkdownMatch(completion) ==
    IF MarkdownPairs(completion) = {} THEN <<>>
    ELSE SubSeq(completion,
                MarkdownBest(MarkdownPairs(completion))[1] + 1,
                MarkdownBest(MarkdownPairs(completion))[2])

\* jsonMatch[0] of the two OpenAI parsers: the text handed to JSON.parse
JsonText(completion) ==
    IF JsonMatch(completion) # <<>> THEN JsonMatch(completion)
    ELSE MarkdownMatch(completion)

\* JSON.parse of a matched text: an array when the text is "[", values,
\* "]"; a SyntaxError otherwise (the completions of the model nest no arrays)
JsonParse(text) ==
    IF /\ Len(text) >= 2
       /\ text[1] = LBracket
       /\ text[Len(text)] = RBracket
       /\ \A i \in 2..(Len(text) - 1) : text[i].tok = "v"
    THEN [threw |-> FALSE,
          arr |-> [i \in 1..(Len(text) - 2) |-> text[i + 1].e]]
    ELSE [threw |-> TRUE, arr |-> <<>>]

\* a reply of a remote call: the call failed (network, auth, quota, no
\* content), or it returned a completion
Failed == [err |-> TRUE, completion |-> <<>>]
Reply(completion) == [err |-> FALSE, completion |-> completion]

\* the case of a parsed text: JSON.parse threw, the array is empty, or it
\* has elements
ParsedKind(parsed) ==
    IF parsed.threw THEN "syntaxError"
    ELSE IF Len(parsed.arr) = 0 THEN "emptyArray"
    ELSE "array"

\* the case of a matched text: no array was found, or the case of its parse
MatchedKind(text) ==
    IF text = <<>> THEN "noJsonArray" ELSE ParsedKind(JsonParse(text))

\* which case of the reply handling a reply falls in
ReplyKind(reply) ==
    IF reply.err THEN "callFailed" ELSE MatchedKind(JsonText(reply.completion))

\* the end of parseICS205WithOpenAI, given the parse of the matched text:
\* a parse error and an empty array both throw
DocParsed(parsed) ==
    IF parsed.threw \/ Len(parsed.arr) = 0
    THEN [threw |-> TRUE, recs |-> <<>>]
    ELSE [threw |-> FALSE, recs |-> parsed.arr]

\* the end of parseTextWithOpenAI, given the parse of the matched text:
\* only a parse error throws
TextParsed(parsed) ==
    IF parsed.threw
    THEN [threw |-> TRUE, recs |-> <<>>]
    ELSE [threw |-> FALSE, recs |-> parsed.arr]

\* parseICS205WithOpenAI after the await: [threw, recs]
parseICS205WithOpenAI(reply) ==
    IF reply.err THEN [threw |-> TRUE, recs |-> <<>>]
    ELSE DocParsed(JsonParse(JsonText(reply.completion)))

\* parseTextWithOpenAI after the await: [threw, recs]
parseTextWithOpenAI(reply) ==
    IF reply.err THEN [threw |-> TRUE, recs |-> <<>>]
    ELSE TextParsed(JsonParse(JsonText(reply.completion)))

\* ------------------------------------------------------------------------
\* Inputs of the model
\* ------------------------------------------------------------------------
RecSimplex ==
    Obj(StrV(<<"C", "m", "d">>), StrV(<<"1", "4", "6", ".", "5", "2">>), StrV(<<"1", "4", "6", ".", "5", "2">>),
        StrV(<<"1", "0", "0", ".", "0">>), StrV(<<"F", "M">>), StrV(<<"a", ",", "b">>))

RecNewline ==
    Obj(StrV(<<"N", "e", "t">>), StrV(<<"1", "5", "5", ".", "1", "6">>), NullV, NullV, StrV(<<"N", "F", "M">>),
        StrV(<<"x", "\n", "y">>))

RecNumName ==
    Obj(NumV(5), StrV(<<"1", "4", "6", ".", "5", "2">>), NullV, NullV, NullV, NullV)

\* the elements a reply array is made of
Elems == {RecSimplex, RecNewline, RecNumName, NullElem}

RECURSIVE SeqsUpTo(_, _)
\* the sequences over S of length at most n
SeqsUpTo(S, n) ==
    IF n = 0 THEN {<<>>}
    ELSE UNION {{q} \cup {Append(q, x) : x \in S} : q \in SeqsUpTo(S, n - 1)}

Arrays == SeqsUpTo(Elems, MaxRecs)

\* what the model writes before and after the array
Before == {<<>>, <<Prose>>, <<Fence>>, <<LBracket, Prose, RBracket, Prose>>}
After == {<<>>, <<Prose>>, <<Fence>>, <<Prose, LBracket, Prose, RBracket>>}

\* the completions of the model: every array as the whole reply, one array
\* inside every combination of surrounding text, and replies without array
Completions ==
    {<<LBracket>> \o [i \in 1..Len(arr) |-> Val(arr[i])] \o <<RBracket>> :
         arr \in Arrays}
    \cup {b \o <<LBracket, Val(RecSimplex), RBracket>> \o a :
              b \in Before, a \in After}
    \cup {<<>>, <<Prose>>, <<LBracket, Val(RecSimplex)>>, <<RBracket, LBracket>>}

Replies == {Failed} \cup {Reply(c) : c \in Completions}

LineSimplex ==
    <<"S", "i", "m", "p", "l", "e", "x", " ", " ", "1", "4", "6", ".", "5", "2", "0", " ", " ", "1", "4", "6", ".", "5", "2", "0", " ", " ", "1", "0", "0", ".", "0">>
LineNone == <<"P", "a", "g", "e", " ", "1", "2", ".", "5">>
LineBlank == <<" ", " ">>

Lines == {LineSimplex, LineNone, LineBlank}

\* the texts pdf-parse may extract: up to MaxLines lines
Texts == {Join(ls, Newline) : ls \in SeqsUpTo(Lines, MaxLines)}

\* outcomes of pdfParse(pdfBuffer): it throws, or it returns data.text
PdfOutcomes == {[threw |-> TRUE, text |-> <<>>]}
               \cup {[threw |-> FALSE, text |-> t] : t \in Texts}

\* options.filename of the call
Filenames == {<<"p", "l", "a", "n", ".", "P", "D", "F">>,
              <<"p", "l", "a", "n">>,
              <<>>,
              <<"a", ".", "p", "d", "f", ".", "t", "x", "t">>}

\* the options argument (has = FALSE: filename is not given)
OptionsSet == {[has |-> FALSE, filename |-> <<>>]}
              \cup {[has |-> TRUE, filename |-> f] : f \in Filenames}

\* ------------------------------------------------------------------------
\* convertICS205ToChirp as a state machine
\* ------------------------------------------------------------------------
VARIABLES
    env,            \* process.env: which credentials are set
    options,        \* the options argument
    pc,             \* where the conversion is suspended
    frequencyData,  \* the local of convertICS205ToChirp: [null, recs]
    data,           \* what pdfParse settled with: [set, threw, text]
    extractedText,  \* the local extractedText: [set, text]
    result,         \* the settled promise
    log,            \* the calls made and how each ended, in order
    parked,         \* the other conversion in flight, while this one runs
    response        \* the reply of a model call that is being handled alone

vars ==
    <<env, options, pc, frequencyData, data, extractedText, result, log,
      parked, response>>

Null == [null |-> TRUE, recs |-> <<>>]
Data(recs) == [null |-> FALSE, recs |-> recs]

Pending ==
    [status |-> "pending", csv |-> <<>>, filename |-> <<>>,
     channelCount |-> 0, error |-> "none"]

Failure(reason) ==
    [status |-> "failure", csv |-> <<>>, filename |-> <<>>,
     channelCount |-> 0, error |-> reason]

Success(csv, filename, channelCount) ==
    [status |-> "success", csv |-> csv, filename |-> filename,
     channelCount |-> channelCount, error |-> "none"]

\* log entries: a call is made; it returned recs (ok) or threw (fail); kind
\* is the case of the reply of a model call, "-" for the other calls
Call(op) == [ev |-> "call", op |-> op, kind |-> "-", recs |-> <<>>]
Ok(op, kind, recs) == [ev |-> "ok", op |-> op, kind |-> kind, recs |-> recs]
Fail(op, kind) == [ev |-> "fail", op |-> op, kind |-> kind, recs |-> <<>>]

\* const { filename = 'ics205.pdf' } = options
Filename(opts) ==
    IF opts.has THEN opts.filename ELSE <<"i", "c", "s", "2", "0", "5", ".", "p", "d", "f">>

\* /\.pdf$/i matches filename
EndsWithPdf(filename) ==
    /\ Len(filename) >= 4
    /\ ToLowerCase(SubSeq(filename, Len(filename) - 3, Len(filename)))
           = <<".", "p", "d", "f">>

\* filename.replace(/\.pdf$/i, '-channels.csv')
OutputFilename(filename) ==
    IF EndsWithPdf(filename)
    THEN SubSeq(filename, 1, Len(filename) - 4) \o <<"-", "c", "h", "a", "n", "n", "e", "l", "s", ".", "c", "s", "v">>
    ELSE filename

\* validateEnvironment that never throws
validateEnvironment_Skipped(e) == FALSE

\* validateEnvironment() throws
validateEnvironment(e) == ~e.OPENAI_API_KEY /\ ~e.GRADIENT_AI_API_KEY

\* the locals of a conversion that is suspended while the other one runs
Suspended(o, p, fd, d, et, r, lg) ==
    [options |-> o, pc |-> p, frequencyData |-> fd, data |-> d,
     extractedText |-> et, result |-> r, log |-> lg]

\* no other conversion is in flight
NoCall ==
    Suspended([has |-> FALSE, filename |-> <<>>], "none", Null,
              [set |-> FALSE, threw |-> FALSE, text |-> <<>>],
              [set |-> FALSE, text |-> <<>>], Pending, <<>>)

Init ==
    /\ env \in [OPENAI_API_KEY : BOOLEAN, GRADIENT_AI_API_KEY : BOOLEAN]
    /\ options \in OptionsSet
    /\ pc = "start"
    /\ frequencyData = Null
    /\ data = [set |-> FALSE, threw |-> FALSE, text |-> <<>>]
    /\ extractedText = [set |-> FALSE, text |-> <<>>]
    /\ result = Pending
    /\ log = <<>>
    /\ parked = NoCall
    /\ response = Failed

\* Encode that skips the records the encoder cannot write and settles with
\* the csv of the others
Encode_Partial(recs, lg) ==
    \E good \in {SelectSeq(recs, LAMBDA freq : ~RowThrows(freq))} :
        /\ frequencyData' = Data(recs)
        /\ pc' = "done"
        /\ result' = Success(convertToChirpCSV(good).csv,
                             OutputFilename(Filename(options)), Len(good))
        /\ log' = lg \o <<Call("encode"), Ok("encode", "-", <<>>)>>

\* Steps 3 and 4 of convertICS205ToChirp: encode recs and settle
Encode(recs, lg) ==
    \E enc \in {convertToChirpCSV(recs)} :
        /\ frequencyData' = Data(recs)
        /\ pc' = "done"
        /\ IF enc.threw
           THEN /\ result' = Failure("TypeError")
                /\ log' = lg \o <<Call("encode"), Fail("encode", "-")>>
           ELSE /\ result' = Success(enc.csv, OutputFilename(Filename(options)),
                                     Len(recs))
                /\ log' = lg \o <<Call("encode"), Ok("encode", "-", <<>>)>>

\* fallbackParsing(text) called from the catch block of parseICS205WithAI
\* (line 737): what it throws ends the conversion
Fallback(text, lg) ==
    \E fp \in {fallbackParsing(text)} :
        IF fp.threw
        THEN /\ result' = Failure("NoFrequenciesFound")
             /\ pc' = "done"
             /\ log' = lg \o <<Call("heuristic"), Fail("heuristic", "-")>>
             /\ UNCHANGED frequencyData
        ELSE Encode(fp.recs,
                    lg \o <<Call("heuristic"), Ok("heuristic", "-", fp.recs)>>)

\* fallbackParsing(text) called inside the try block (line 719): what it
\* throws is caught by the catch block, which calls it again
FallbackInTry(text, lg) ==
    \E fp \in {fallbackParsing(text)} :
        IF fp.threw
        THEN Fallback(text, lg \o <<Call("heuristic"), Fail("heuristic", "-")>>)
        ELSE Encode(fp.recs,
                    lg \o <<Call("heuristic"), Ok("heuristic", "-", fp.recs)>>)

\* GradientStart without the test of GRADIENT_AI_API_KEY: the model is
\* fetched whatever the configuration
GradientStart_Unchecked(text, lg) ==
    /\ pc' = "getModel"
    /\ log' = lg \o <<Call("gradientGetModel")>>
    /\ UNCHANGED <<frequencyData, result>>

\* the Gradient part of parseICS205WithAI up to its first await
GradientStart(text, lg) ==
    IF ~env.GRADIENT_AI_API_KEY
    THEN Fallback(text, lg)
    ELSE /\ pc' = "getModel"
         /\ log' = lg \o <<Call("gradientGetModel")>>
         /\ UNCHANGED <<frequencyData, result>>

\* convertICS205ToChirp up to its first await
Start ==
    /\ pc = "start"
    /\ IF validateEnvironment(env)
       THEN /\ pc' = "done"
            /\ result' = Failure("ConfigError")
            /\ UNCHANGED log
       ELSE IF env.OPENAI_API_KEY
       THEN /\ pc' = "openaiDoc"
            /\ log' = log \o <<Call("openaiDoc")>>
            /\ UNCHANGED result
       ELSE /\ pc' = "pdfParse"
            /\ log' = log \o <<Call("pdfParse")>>
            /\ UNCHANGED result
    /\ UNCHANGED <<env, options, frequencyData, data, extractedText, parked, response>>

\* the document-mode call of parseICS205WithOpenAI settles with reply
OpenAIDocReplyOf(reply) ==
    /\ pc = "openaiDoc"
    /\ \E r \in {parseICS205WithOpenAI(reply)} :
        IF ~r.threw
        THEN Encode(r.recs,
                    log \o <<Ok("openaiDoc", ReplyKind(reply), r.recs)>>)
        ELSE /\ frequencyData' = Null
             /\ pc' = "pdfParse"
             /\ log' = log \o <<Fail("openaiDoc", ReplyKind(reply)),
                                Call("pdfParse")>>
             /\ UNCHANGED result
    /\ UNCHANGED <<env, options, data, extractedText, parked, response>>

\* OpenAIDocReply without the test of frequencyData before Step 2: text
\* extraction runs after a successful document-mode call as well
OpenAIDocReply_NoShortCircuit ==
    /\ pc = "openaiDoc"
    /\ \E reply \in Replies :
         \E r \in {parseICS205WithOpenAI(reply)} :
             /\ frequencyData' = IF r.threw THEN Null ELSE Data(r.recs)
             /\ pc' = "pdfParse"
             /\ log' = log \o <<IF r.threw
                                 THEN Fail("openaiDoc", ReplyKind(reply))
                                 ELSE Ok("openaiDoc", ReplyKind(reply), r.recs),
                                Call("pdfParse")>>
             /\ UNCHANGED result
    /\ UNCHANGED <<env, options, data, extractedText, parked, response>>

\* the document-mode call of parseICS205WithOpenAI settles
OpenAIDocReply == \E reply \in Replies : OpenAIDocReplyOf(reply)

\* PdfParseReply with the extraction failure caught and the heuristic
\* extractor run on whatever text there is
PdfParseReply_Swallow ==
    /\ pc = "pdfParse"
    /\ \E o \in PdfOutcomes :
         /\ data' = [set |-> TRUE, threw |-> o.threw, text |-> o.text]
         /\ IF o.threw \/ Len(o.text) = 0 \/ Len(Trim(o.text)) = 0
            THEN /\ Fallback(o.text, log \o <<Fail("pdfParse", "-")>>)
                 /\ UNCHANGED extractedText
            ELSE /\ extractedText' = [set |-> TRUE, text |-> o.text]
                 /\ IF env.OPENAI_API_KEY
                    THEN /\ pc' = "openaiText"
                         /\ log' = log \o <<Ok("pdfParse", "-", <<>>),
                                            Call("openaiText")>>
                         /\ UNCHANGED <<frequencyData, result>>
                    ELSE GradientStart(o.text,
                                       log \o <<Ok("pdfParse", "-", <<>>)>>)
    /\ UNCHANGED <<env, options, parked, response>>

\* PdfParseReply with the Gradient backend preferred to the OpenAI text mode
\* when both are configured
PdfParseReply_GradientFirst ==
    /\ pc = "pdfParse"
    /\ \E o \in PdfOutcomes :
         /\ data' = [set |-> TRUE, threw |-> o.threw, text |-> o.text]
         /\ IF o.threw \/ Len(o.text) = 0 \/ Len(Trim(o.text)) = 0
            THEN /\ result' = Failure("ExtractFailed")
                 /\ pc' = "done"
                 /\ log' = log \o <<Fail("pdfParse", "-")>>
                 /\ UNCHANGED <<frequencyData, extractedText>>
            ELSE /\ extractedText' = [set |-> TRUE, text |-> o.text]
                 /\ IF env.OPENAI_API_KEY /\ ~env.GRADIENT_AI_API_KEY
                    THEN /\ pc' = "openaiText"
                         /\ log' = log \o <<Ok("pdfParse", "-", <<>>),
                                            Call("openaiText")>>
                         /\ UNCHANGED <<frequencyData, result>>
                    ELSE GradientStart(o.text,
                                       log \o <<Ok("pdfParse", "-", <<>>)>>)
    /\ UNCHANGED <<env, options, parked, response>>

\* pdfParse settles: extractTextFromPDF, then parseICS205WithAI up to its
\* first await
PdfParseReply ==
    /\ pc = "pdfParse"
    /\ \E o \in PdfOutcomes :
         /\ data' = [set |-> TRUE, threw |-> o.threw, text |-> o.text]
         /\ IF o.threw \/ Len(o.text) = 0 \/ Len(Trim(o.text)) = 0
            THEN /\ result' = Failure("ExtractFailed")
                 /\ pc' = "done"
                 /\ log' = log \o <<Fail("pdfParse", "-")>>
                 /\ UNCHANGED <<frequencyData, extractedText>>
            ELSE /\ extractedText' = [set |-> TRUE, text |-> o.text]
                 /\ IF env.OPENAI_API_KEY
                    THEN /\ pc' = "openaiText"
                         /\ log' = log \o <<Ok("pdfParse", "-", <<>>),
                                            Call("openaiText")>>
                         /\ UNCHANGED <<frequencyData, result>>
                    ELSE GradientStart(o.text,
                                       log \o <<Ok("pdfParse", "-", <<>>)>>)
    /\ UNCHANGED <<env, options, parked, response>>

\* the text-mode call of parseTextWithOpenAI settles
OpenAITextReplyOf(reply) ==
    /\ pc = "openaiText"
    /\ \E r \in {parseTextWithOpenAI(reply)} :
        IF ~r.threw
        THEN Encode(r.recs,
                    log \o <<Ok("openaiText", ReplyKind(reply), r.recs)>>)
        ELSE GradientStart(extractedText.text,
                           log \o <<Fail("openaiText", ReplyKind(reply))>>)
    /\ UNCHANGED <<env, options, data, extractedText, parked, response>>

\* OpenAITextReply with one retry of the text-mode call after a failure
OpenAITextReply_Retry ==
    /\ pc = "openaiText"
    /\ \E reply \in Replies :
         \E r \in {parseTextWithOpenAI(reply)} :
             IF ~r.threw
             THEN Encode(r.recs,
                         log \o <<Ok("openaiText", ReplyKind(reply), r.recs)>>)
             ELSE IF Len(SelectSeq(log, LAMBDA e : e = Call("openaiText"))) < 2
             THEN /\ pc' = "openaiText"
                  /\ log' = log \o <<Fail("openaiText", ReplyKind(reply)),
                                     Call("openaiText")>>
                  /\ UNCHANGED <<frequencyData, result>>
             ELSE GradientStart(extractedText.text,
                                log \o <<Fail("openaiText", ReplyKind(reply))>>)
    /\ UNCHANGED <<env, options, data, extractedText, parked, response>>

\* the text-mode call of parseTextWithOpenAI settles
OpenAITextReply == \E reply \in Replies : OpenAITextReplyOf(reply)

\* gradient.getModel settles
GetModelReply ==
    /\ pc = "getModel"
    /\ \E ok \in BOOLEAN :
         IF ok
         THEN /\ pc' = "completeModel"
              /\ log' = log \o <<Ok("gradientGetModel", "-", <<>>),
                                 Call("gradientComplete")>>
              /\ UNCHANGED <<frequencyData, result>>
         ELSE Fallback(extractedText.text,
                       log \o <<Fail("gradientGetModel", "callFailed")>>)
    /\ UNCHANGED <<env, options, data, extractedText, parked, response>>

\* model.completeModel settles: the rest of parseICS205WithAI
CompleteModelReplyOf(reply) ==
    /\ pc = "completeModel"
    /\ \E jsonMatch \in {IF reply.err THEN <<>>
                        ELSE JsonMatch(reply.completion)} :
        \E parsed \in {JsonParse(jsonMatch)} :
            IF reply.err
            THEN Fallback(extractedText.text,
                          log \o <<Fail("gradientComplete", "callFailed")>>)
            ELSE IF jsonMatch = <<>>
            THEN FallbackInTry(extractedText.text,
                               log \o <<Fail("gradientComplete",
                                             "noJsonArray")>>)
            ELSE IF parsed.threw
            THEN Fallback(extractedText.text,
                          log \o <<Fail("gradientComplete",
                                        "syntaxError")>>)
            ELSE Encode(parsed.arr,
                        log \o <<Ok("gradientComplete",
                                    ParsedKind(parsed), parsed.arr)>>)
    /\ UNCHANGED <<env, options, data, extractedText, parked, response>>

\* CompleteModelReply that answers every reply by fetching the model again,
\* as if the last two steps had not happened
CompleteModelReply_Refetch ==
    /\ pc = "completeModel"
    /\ pc' = "getModel"
    /\ log' = SubSeq(log, 1, Len(log) - 2)
    /\ UNCHANGED <<env, options, frequencyData, data, extractedText, result,
                   parked, response>>

\* model.completeModel settles
CompleteModelReply == \E reply \in Replies : CompleteModelReplyOf(reply)

Next ==
    \/ Start
    \/ OpenAIDocReply
    \/ PdfParseReply
    \/ OpenAITextReply
    \/ GetModelReply
    \/ CompleteModelReply

Spec == Init /\ [][Next]_vars

\* the conversion leaves the await it is at (or starts)
Settle ==
    /\ pc # "done"
    /\ pc' \in {"openaiDoc", "pdfParse", "openaiText", "getModel",
                "completeModel", "done"}

\* every pending call settles: pdf-parse and each model call return a reply
\* or an error, so no conversion stays at an await for ever
LiveSpec == Init /\ [][Next]_vars /\ WF_pc(Settle)

\* ------------------------------------------------------------------------
\* Properties
\* ------------------------------------------------------------------------
\* the remote model operations
AIOps == {"openaiDoc", "openaiText", "gradientGetModel", "gradientComplete"}

\* the operations that come after the document-mode call
LaterTiers == {"pdfParse", "openaiText", "gradientGetModel",
               "gradientComplete", "heuristic"}

\* the cases of a reply in which the AI attempt produced no record
FailureKinds == {"callFailed", "noJsonArray", "syntaxError", "emptyArray"}

Called(op) == \E i \in 1..Len(log) : log[i] = Call(op)

CallCount(op) == Cardinality({i \in 1..Len(log) : log[i] = Call(op)})

Returned(op) == \E i \in 1..Len(log) : log[i].op = op /\ log[i].ev = "ok"

Threw(op) == \E i \in 1..Len(log) : log[i].op = op /\ log[i].ev = "fail"

ChannelsCsv == <<"-", "c", "h", "a", "n", "n", "e", "l", "s", ".", "c", "s", "v">>

EndsWith(s, suffix) ==
    Len(s) >= Len(suffix)
    /\ SubSeq(s, Len(s) - Len(suffix) + 1, Len(s)) = suffix

\* the filename the result is to carry for input filename f
DerivedFilename(f) ==
    (IF EndsWith(ToLowerCase(f), <<".", "p", "d", "f">>)
     THEN SubSeq(f, 1, Len(f) - 4) ELSE f) \o ChannelsCsv

\* C1: every successful result is built from at least one record
\* (channelCount >= 1): an empty array of any AI tier is a tier failure.
C1_NoEmptySuccess ==
    result.status = "success" => result.channelCount >= 1

\* C2: the filename of every successful result ends with "-channels.csv":
\* a trailing ".pdf" in any letter case is replaced by it, and it is
\* appended when the input filename has no ".pdf" suffix.
C2_FilenameSuffix ==
    result.status = "success" =>
        /\ EndsWith(result.filename, ChannelsCsv)
        /\ result.filename = DerivedFilename(Filename(options))

\* C3: in every successful result channelCount equals the number of lines
\* of csv after the header line, whatever text the record fields contain.
C3_ChannelCountIsRowCount ==
    result.status = "success" =>
        result.channelCount = Count(result.csv, "\n")

\* C4: when the document-mode call returns a non-empty array the pipeline
\* short-circuits: no text extraction, no text-mode AI call and no heuristic
\* extraction is made, and the records of the result are that array.
C4_DocShortCircuit ==
    \A i \in 1..Len(log) :
        (log[i].op = "openaiDoc" /\ log[i].ev = "ok") =>
            /\ Len(log[i].recs) >= 1
            /\ \A op \in LaterTiers : ~Called(op)
            /\ frequencyData = Data(log[i].recs)
            /\ result.status = "success" =>
                   /\ result.csv = convertToChirpCSV(log[i].recs).csv
                   /\ result.channelCount = Len(log[i].recs)

C4_Witness ==
    /\ Returned("openaiDoc")
    /\ result.status = "success"
    /\ result.channelCount = 2

\* every reply of a model call was a failure of the AI tier: the call
\* failed, the reply held no parsable array, or the array was empty
EveryAIAttemptFailed ==
    \A i \in 1..Len(log) :
        (log[i].op \in AIOps /\ log[i].ev \in {"ok", "fail"}) =>
            log[i].kind \in FailureKinds \cup {"-"}

\* C5: when text extraction succeeds and every AI attempt fails, the outcome
\* is the direct outcome of the heuristic extractor on the same text: the
\* same records in the same order, and a failure exactly when it fails.
C5_FallthroughIsHeuristic ==
    (pc = "done" /\ extractedText.set /\ EveryAIAttemptFailed) =>
        \A fp \in {fallbackParsing(extractedText.text)} :
            IF fp.threw
            THEN result.status = "failure"
            ELSE /\ result.status = "success"
                 /\ frequencyData = Data(fp.recs)

\* C6: no AI-tier failure terminates the request: a conversion for which
\* text extraction succeeded fails only with the heuristic tier's
\* NoFrequenciesFound reason.
C6_OnlyHeuristicFailure ==
    (pc = "done" /\ extractedText.set /\ result.status = "failure") =>
        result.error = "NoFrequenciesFound"

\* C7: when PDF text extraction fails (pdfParse throws, or the trimmed text
\* is empty) the failure propagates immediately: no text-mode AI call and no
\* heuristic extraction is made, and the conversion has ended in failure
\* with the extraction reason.
C7_ExtractFailurePropagates ==
    (data.set /\ (data.threw \/ Trim(data.text) = <<>>)) =>
        /\ \A op \in LaterTiers \ {"pdfParse"} : ~Called(op)
        /\ ~Called("encode")
        /\ ~extractedText.set
        /\ pc = "done"
        /\ result = Failure("ExtractFailed")

C7_Witness ==
    /\ data.set /\ ~data.threw /\ Len(data.text) > 0
    /\ Threw("pdfParse")
    /\ Threw("openaiDoc")
    /\ env.GRADIENT_AI_API_KEY

\* C8: with neither credential configured the conversion fails with a
\* configuration error before any tier is attempted: no PDF parse, no AI
\* call and no heuristic extraction happens.
C8_ConfigErrorBeforeAnyTier ==
    (~env.OPENAI_API_KEY /\ ~env.GRADIENT_AI_API_KEY) =>
        /\ log = <<>>
        /\ pc \in {"start", "done"}
        /\ pc = "done" => result = Failure("ConfigError")

C8_Witness ==
    /\ ~env.OPENAI_API_KEY /\ ~env.GRADIENT_AI_API_KEY
    /\ pc = "done"
    /\ result.status = "failure"

\* position of an operation in the tier sequence
TierRank(op) ==
    CASE op = "openaiDoc" -> 1
      [] op = "pdfParse" -> 2
      [] op = "openaiText" -> 3
      [] op = "gradientGetModel" -> 4
      [] op = "gradientComplete" -> 5
      [] op = "heuristic" -> 6
      [] op = "encode" -> 7

\* C9: no retries within a tier: each AI backend operation is called at most
\* once in a conversion, and a failed call is followed by a later tier, never
\* by a second call of the same operation.
C9_NoRetries ==
    /\ \A op \in AIOps : CallCount(op) <= 1
    /\ \A i \in 1..Len(log) : \A j \in (i + 1)..Len(log) :
           (log[i].op \in AIOps /\ log[i].ev = "fail" /\ log[j].ev = "call")
               => TierRank(log[j].op) > TierRank(log[i].op)

C9_Witness ==
    /\ Threw("openaiDoc")
    /\ Threw("openaiText")
    /\ Threw("gradientComplete")
    /\ Called("heuristic")

\* C10: with both backends configured the OpenAI backend is tried before the
\* Gradient backend, the Gradient backend is called only after every OpenAI
\* attempt has failed, and the first successful attempt is the one accepted.
C10_PreferenceOrder ==
    (env.OPENAI_API_KEY /\ env.GRADIENT_AI_API_KEY) =>
        /\ \A j \in 1..Len(log) :
               (log[j].ev = "call"
                /\ log[j].op \in {"gradientGetModel", "gradientComplete"}) =>
                   /\ \E i \in 1..(j - 1) : log[i].op = "openaiDoc"
                                            /\ log[i].ev = "fail"
                   /\ \E i \in 1..(j - 1) : log[i].op = "openaiText"
                                            /\ log[i].ev = "fail"
                   /\ \A i \in 1..(j - 1) : ~(log[i].op \in AIOps
                                              /\ log[i].ev = "ok"
                                              /\ log[i].kind # "-")
        /\ \A i \in 1..Len(log) :
               (log[i].op \in AIOps /\ log[i].ev = "ok" /\ log[i].kind # "-") =>
                   /\ frequencyData = Data(log[i].recs)
                   /\ \A j \in (i + 1)..Len(log) : log[j].op \notin AIOps

C10_Witness ==
    /\ env.OPENAI_API_KEY /\ env.GRADIENT_AI_API_KEY
    /\ Returned("gradientComplete")
    /\ result.status = "success"

\* ------------------------------------------------------------------------
\* C11
\* ------------------------------------------------------------------------
\* the operations that return a record list
TierOps == {"openaiDoc", "openaiText", "gradientComplete", "heuristic"}

\* the positions of the log at which a tier returned its record list
Accepted == {i \in 1..Len(log) : log[i].ev = "ok" /\ log[i].op \in TierOps}

\* the csv text that has the header and one row, in order, for every record
\* of recs and nothing else
FullCsv(recs) ==
    Join(<<Join(HeaderColumns, Comma)>>
         \o [k \in 1..Len(recs) |-> Join(RowFields(recs[k], k - 1), Comma)],
         Newline)

\* C11: the result is all-or-nothing: a failure carries no csv, and the csv
\* of a success has one row for every record of the list of exactly one
\* tier: no records of two tiers are mixed, no accepted record is dropped.
C11_AllOrNothing ==
    /\ result.status = "failure" =>
           (result.csv = <<>> /\ result.channelCount = 0)
    /\ result.status = "success" =>
           /\ Cardinality(Accepted) = 1
           /\ \A i \in Accepted :
                  /\ frequencyData = Data(log[i].recs)
                  /\ result.csv = FullCsv(log[i].recs)
                  /\ result.channelCount = Len(log[i].recs)

C11_Witness ==
    /\ result.status = "success"
    /\ result.channelCount = 2
    /\ Threw("openaiDoc")
    /\ Threw("openaiText")
    /\ Returned("gradientComplete")

\* ------------------------------------------------------------------------
\* convertToChirpCSV on its own: Steps 3 and 4 of convertICS205ToChirp for
\* every record list of EncoderInputs
\* ------------------------------------------------------------------------
\* values of rxFreq: strings as the prompt asks for, and JSON numbers
FreqValues == {StrV(<<"1", "4", "6", ".", "5", "2">>), StrV(<<"1", "4", "7", ".", "1", "2">>), NumV(0), NumV(146)}

\* values of txFreq: the same, or null
TxValues == FreqValues \cup {NullV}

\* a record for every pair of an rxFreq and a txFreq
PairRecs ==
    {Obj(StrV(<<"R", "p", "t">>), rx, tx, NullV, NullV, NullV) :
         rx \in FreqValues, tx \in TxValues}

\* a name of 30 characters
Name30 == <<"A", "B", "C", "D", "E", "F", "G", "H", "I", "J", "K", "L", "M", "N", "O", "P", "Q", "R", "S", "T", "U", "V", "W", "X", "Y", "Z", "0", "1", "2", "3">>

\* remarks of 300 characters, every seventh a comma
Remarks300 == [i \in 1..300 |-> IF i % 7 = 0 THEN "," ELSE "r"]

RecLong ==
    Obj(StrV(Name30), StrV(<<"1", "4", "6", ".", "5", "2">>), NullV, NullV, StrV(<<"A", "M">>),
        StrV(Remarks300))

\* a name of whitespace only
RecBlankName ==
    Obj(StrV(<<" ", " ">>), StrV(<<"1", "4", "6", ".", "5", "2">>), NullV, NullV, NullV, NullV)

\* no name, a tone
RecNoName ==
    Obj(NullV, StrV(<<"1", "4", "6", ".", "5", "2">>), NullV, StrV(<<"8", "8", ".", "5">>), NullV, NullV)

\* an empty name, an empty tone
RecEmptyName ==
    Obj(StrV(<<>>), StrV(<<"1", "4", "6", ".", "5", "2">>), NullV, StrV(<<>>), NullV, StrV(<<>>))

\* a comma in the name
RecCommaName ==
    Obj(StrV(<<"N", "e", "t", ",", " ", "N", "o", "r", "t", "h">>), StrV(<<"1", "4", "6", ".", "5", "2">>), NullV, StrV(<<"1", "0", "0", ".", "0">>),
        StrV(<<"F", "M">>), StrV(<<"a", ",", "b">>))

\* the records the lists are made of
EncoderRecs ==
    PairRecs \cup {RecLong, RecBlankName, RecNoName, RecEmptyName,
                   RecNewline, RecSimplex, RecCommaName}

\* the arguments of convertToChirpCSV
EncoderInputs == SeqsUpTo(EncoderRecs, MaxRecs)

\* convertICS205ToChirp at Step 3 with frequencyData one of EncoderInputs
EncoderInit ==
    /\ env = [OPENAI_API_KEY |-> TRUE, GRADIENT_AI_API_KEY |-> TRUE]
    /\ options = [has |-> FALSE, filename |-> <<>>]
    /\ pc = "encode"
    /\ frequencyData \in {Data(recs) : recs \in EncoderInputs}
    /\ data = [set |-> FALSE, threw |-> FALSE, text |-> <<>>]
    /\ extractedText = [set |-> FALSE, text |-> <<>>]
    /\ result = Pending
    /\ log = <<>>
    /\ parked = NoCall
    /\ response = Failed

\* Steps 3 and 4: convertToChirpCSV(frequencyData) and the return
EncodeStep ==
    /\ pc = "encode"
    /\ Encode(frequencyData.recs, log)
    /\ UNCHANGED <<env, options, data, extractedText, parked, response>>

EncoderNext == EncodeStep

EncoderSpec == EncoderInit /\ [][EncoderNext]_vars

\* ------------------------------------------------------------------------
\* Reading a csv text back: lines and fields
\* ------------------------------------------------------------------------
\* index of the first occurrence of character c in s, 0 when there is none
FirstIndex(s, c) ==
    IF \E i \in 1..Len(s) : s[i] = c
    THEN CHOOSE i \in 1..Len(s) : s[i] = c /\ \A j \in 1..(i - 1) : s[j] # c
    ELSE 0

RECURSIVE SplitOn(_, _)
\* the pieces of s between the occurrences of character c
SplitOn(s, c) ==
    IF FirstIndex(s, c) = 0 THEN <<s>>
    ELSE <<SubSeq(s, 1, FirstIndex(s, c) - 1)>>
         \o SplitOn(SubSeq(s, FirstIndex(s, c) + 1, Len(s)), c)

\* the lines of a csv text
CsvLines(csv) == SplitOn(csv, "\n")

\* the fields of line number n of a csv text (line 1 is the header)
CsvFields(csv, n) == SplitOn(CsvLines(csv)[n], ",")

\* the state after Steps 3 and 4 returned a csv for a non-empty list
Encoded ==
    /\ pc = "done"
    /\ result.status = "success"
    /\ Len(frequencyData.recs) >= 1

\* the csv of the result reads back as a table: one line for each record
\* after the header, 14 fields on each line
ReadsBack ==
    /\ Len(CsvLines(result.csv)) = Len(frequencyData.recs) + 1
    /\ \A n \in 1..Len(CsvLines(result.csv)) : Len(CsvFields(result.csv, n)) = 14

\* field number col of the row of the record at 1-based position k
Field(k, col) == CsvFields(result.csv, k + 1)[col]

\* C12: for every non-empty record list the csv has exactly len(records) + 1
\* lines, the header and one for each record in input order, and the
\* Location fields of the rows are 0, 1, ..., len(records) - 1 in order.
C12_LinesAndLocations ==
    Encoded =>
        /\ Len(CsvLines(result.csv)) = Len(frequencyData.recs) + 1
        /\ CsvLines(result.csv)[1] = Join(HeaderColumns, Comma)
        /\ \A k \in 1..Len(frequencyData.recs) :
               /\ CsvLines(result.csv)[k + 1]
                      = Join(RowFields(frequencyData.recs[k], k - 1), Comma)
               /\ Field(k, 1) = NatToStr(k - 1)

\* ------------------------------------------------------------------------
\* C13, C14: Duplex and Offset
\* ------------------------------------------------------------------------
\* the number a frequency value of a record stands for
NumberOf(v) == IF v.t = "num" THEN Num(v.n, 0) ELSE ParseFloat(v.s)

\* the receive frequency of a record: 0 when absent
RxOf(freq) ==
    IF freq.rxFreq.t = "null" THEN Num(0, 0) ELSE NumberOf(freq.rxFreq)

\* the transmit frequency of a record: the receive frequency when absent
TxOf(freq) ==
    IF freq.txFreq.t = "null" THEN RxOf(freq) ELSE NumberOf(freq.txFreq)

\* x + y
Add(x, y) == Sub(x, Neg(y))

Zero6 == <<"0", ".", "0", "0", "0", "0", "0", "0">>

\* Duplex and Offset as they are to follow from tx and rx
DuplexOffsetOf(rx, tx, duplex, offset) ==
    /\ tx = rx => (duplex = <<>> /\ offset = Zero6)
    /\ Lt(rx, tx) => (duplex = <<"+">> /\ offset = ToFixed6(Sub(tx, rx)))
    /\ Lt(tx, rx) => (duplex = <<"-">> /\ offset = ToFixed6(Sub(rx, tx)))
    /\ offset[1] # "-"
    /\ duplex = <<>> <=> offset = Zero6

\* C13: for every record Duplex and Offset follow from the comparison of tx
\* and rx: equal gives "" and "0.000000", tx > rx gives "+" and tx - rx,
\* tx < rx gives "-" and rx - tx; Offset is never negative and Duplex is ""
\* exactly when Offset is zero.
C13_DuplexOffset ==
    (Encoded /\ ReadsBack) =>
        \A k \in 1..Len(frequencyData.recs) :
            DuplexOffsetOf(RxOf(frequencyData.recs[k]),
                           TxOf(frequencyData.recs[k]),
                           Field(k, 4), Field(k, 5))

\* the transmit frequency a reader of the row takes from Frequency, Duplex
\* and Offset
Decoded(frequency, duplex, offset) ==
    IF duplex = <<"+">> THEN Add(ParseFloat(frequency), ParseFloat(offset))
    ELSE IF duplex = <<"-">> THEN Sub(ParseFloat(frequency), ParseFloat(offset))
    ELSE ParseFloat(frequency)

\* C14: for every rx, tx pair, Frequency + Offset when Duplex is "+",
\* Frequency - Offset when it is "-", and Frequency when it is empty is
\* exactly tx.
C14_RoundTrip ==
    (Encoded /\ ReadsBack) =>
        \A k \in 1..Len(frequencyData.recs) :
            Decoded(Field(k, 3), Field(k, 4), Field(k, 5))
                = TxOf(frequencyData.recs[k])

\* ------------------------------------------------------------------------
\* C15: truncation of Name and Comment
\* ------------------------------------------------------------------------
\* the text of a field value: the string, nothing when it is absent
TextOf(v) == IF v.t = "str" THEN v.s ELSE <<>>

\* no comma and no line break in s
IsPlain(s) == \A i \in 1..Len(s) : s[i] \notin {",", "\n"}

\* the record has a string or nothing as name and as remarks, no column
\* delimiter in its name, tone and mode, and no line break in any field
PlainRecord(freq) ==
    /\ freq.k = "obj"
    /\ freq.name.t # "num" /\ IsPlain(TextOf(freq.name))
    /\ IsPlain(TextOf(freq.tone))
    /\ IsPlain(TextOf(freq.mode))
    /\ freq.remarks.t # "num"
    /\ \A i \in 1..Len(TextOf(freq.remarks)) : TextOf(freq.remarks)[i] # "\n"

\* every record of the encoded list is plain
PlainRecords ==
    \A k \in 1..Len(frequencyData.recs) : PlainRecord(frequencyData.recs[k])

RECURSIVE AfterNth(_, _, _)
\* what follows the n-th occurrence of character c in s
AfterNth(s, c, n) ==
    IF n = 0 THEN s
    ELSE AfterNth(SubSeq(s, FirstIndex(s, c) + 1, Len(s)), c, n - 1)

\* the Name field of the row of the record at position k: the second field
NameField(k) == SplitOn(CsvLines(result.csv)[k + 1], ",")[2]

\* the Comment field of that row: all that follows the 13th comma
CommentField(k) == AfterNth(CsvLines(result.csv)[k + 1], ",", 13)

\* the first n characters of s
FirstN(s, n) == SubSeq(s, 1, IF Len(s) < n THEN Len(s) ELSE n)

\* s with a semicolon in the place of every comma
Semicolons(s) == [i \in 1..Len(s) |-> IF s[i] = "," THEN ";" ELSE s[i]]

\* C15: in every row the Name field has at most 16 characters and is the
\* first 16 characters of the record's name; the Comment field has at most
\* 256 characters, holds no comma, and is the first 256 characters of the
\* remarks after every comma was replaced by a semicolon.
C15_Truncation ==
    (Encoded /\ PlainRecords) =>
        \A k \in 1..Len(frequencyData.recs) :
            /\ Len(NameField(k)) <= 16
            /\ TextOf(frequencyData.recs[k].name) # <<>> =>
                   NameField(k) = FirstN(TextOf(frequencyData.recs[k].name), 16)
            /\ Len(CommentField(k)) <= 256
            /\ \A i \in 1..Len(CommentField(k)) : CommentField(k)[i] # ","
            /\ CommentField(k)
                   = FirstN(Semicolons(TextOf(frequencyData.recs[k].remarks)),
                            256)

C15_Witness ==
    /\ Encoded
    /\ PlainRecords
    /\ \E k \in 1..Len(frequencyData.recs) :
           /\ Len(TextOf(frequencyData.recs[k].name)) = 30
           /\ Len(TextOf(frequencyData.recs[k].remarks)) = 300
           /\ Len(NameField(k)) = 16
           /\ Len(CommentField(k)) = 256
           /\ \E i \in 1..256 : CommentField(k)[i] = ";"

\* ------------------------------------------------------------------------
\* C16: the tone columns
\* ------------------------------------------------------------------------
\* the record has a tone value
HasTone(freq) == TextOf(freq.tone) # <<>>

\* C16: the Tone column is "Tone" exactly when the record has a tone value
\* and is empty otherwise; rToneFreq and cToneFreq are equal: both the tone
\* value of the record when it has one, both "88.5" when it has none.
C16_ToneColumns ==
    (Encoded /\ ReadsBack) =>
        \A k \in 1..Len(frequencyData.recs) :
            /\ Field(k, 7) = Field(k, 8)
            /\ IF HasTone(frequencyData.recs[k])
               THEN /\ Field(k, 6) = <<"T", "o", "n", "e">>
                    /\ Field(k, 7) = TextOf(frequencyData.recs[k].tone)
               ELSE /\ Field(k, 6) = <<>>
                    /\ Field(k, 7) = <<"8", "8", ".", "5">>

C16_Witness ==
    /\ Encoded
    /\ ReadsBack
    /\ Len(frequencyData.recs) = 2
    /\ HasTone(frequencyData.recs[1])
    /\ Field(1, 7) = <<"1", "0", "0", ".", "0">>
    /\ ~HasTone(frequencyData.recs[2])
    /\ Field(2, 6) = <<>>

\* ------------------------------------------------------------------------
\* C17: the default name
\* ------------------------------------------------------------------------
\* s is empty or holds whitespace only
IsBlank(s) == \A i \in 1..Len(s) : IsSpace(s[i])

\* C17: for every record at 1-based position n whose name is absent, empty
\* or whitespace only, the Name field is "Channel n"; no Name field is empty
\* or whitespace only.
C17_DefaultName ==
    (Encoded /\ PlainRecords) =>
        \A n \in 1..Len(frequencyData.recs) :
            /\ IsBlank(TextOf(frequencyData.recs[n].name)) =>
                   NameField(n) = <<"C", "h", "a", "n", "n", "e", "l", " ">> \o NatToStr(n)
            /\ ~IsBlank(NameField(n))

\* ------------------------------------------------------------------------
\* fallbackParsing on its own: parseICS205WithAI in its catch block for
\* every text of HeuristicTexts, then Steps 3 and 4
\* ------------------------------------------------------------------------
\* the character U+2013 (en dash): not a digit, not a word character, not
\* whitespace, not "." and not "-"
EnDash == "u2013"

LinePage == <<"P", "a", "g", "e", " ", "1", "2", ".", "5", " ", "o", "f", " ", "1", "0", "0", ".", "0">>

LineCommand ==
    <<"C", "M", "D", "1", " ", " ", "C", "o", "m", "m", "a", "n", "d", " ", " ", "1", "5", "5", ".", "1", "6", "0", " ", " ", "1", "5", "5", ".", "1", "6", "0", " ", " ">> \o <<EnDash>>
    \o <<" ", " ", "F", "M", " ", " ", "N", "e", "t", " ", "c", "o", "n", "t", "r", "o", "l">>

LineHeader == <<"C", "h", "a", "n", "n", "e", "l", " ", " ", "F", "r", "e", "q", "u", "e", "n", "c", "y", " ", "1", "4", "6", ".", "5", "2", "0">>

LineDuplex == <<"2", " ", "R", "p", "t", " ", " ", "1", "4", "6", ".", "9", "4", "0", " ", " ", "1", "4", "6", ".", "3", "4", "0", " ", " ", "1", "0", "0", ".", "0">>

\* four characters that are a number of the range
LineShort == <<"3", "0", ".", "5">>

LineHeading == <<"R", "A", "D", "I", "O", " ", "C", "O", "M", "M", "U", "N", "I", "C", "A", "T", "I", "O", "N", "S", " ", "P", "L", "A", "N", " ", "1", "4", "6", ".", "5", "2", "0">>

\* no name in front of the number
LineBare == <<"1", "4", "6", ".", "5", "2", "0">>

\* numbers below, inside and above the range, the first of the shape of a
\* tone
LineMixed == <<"T", "a", "c", " ", "1", "2", ".", "5", " ", "4", "6", "2", ".", "5", "6", "2", "5", " ", "3", "5", "0", "0", ".", "5", " ", "4", "6", "7", ".", "5", "6", "2", "5", " ", "3", "0", "0", ".", "0">>

\* one frequency followed by a tone
LineToneAfter == <<"S", "i", "m", "p", "l", "e", "x", " ", " ", "1", "4", "6", ".", "5", "2", "0", " ", " ", "1", "0", "0", ".", "0">>

\* the lines the texts are made of
HeuristicLines ==
    Lines \cup {LinePage, LineCommand, LineHeader, LineDuplex, LineShort,
                LineHeading, LineBare, LineMixed, LineToneAfter}

\* the arguments of fallbackParsing: up to MaxLines lines
HeuristicTexts == {Join(ls, Newline) : ls \in SeqsUpTo(HeuristicLines, MaxLines)}

\* parseICS205WithAI in its catch block with text one of HeuristicTexts
HeuristicInit ==
    /\ env = [OPENAI_API_KEY |-> TRUE, GRADIENT_AI_API_KEY |-> FALSE]
    /\ options = [has |-> FALSE, filename |-> <<>>]
    /\ pc = "heuristic"
    /\ frequencyData = Null
    /\ \E t \in HeuristicTexts :
           /\ data = [set |-> TRUE, threw |-> FALSE, text |-> t]
           /\ extractedText = [set |-> TRUE, text |-> t]
    /\ result = Pending
    /\ log = <<>>
    /\ parked = NoCall
    /\ response = Failed

\* fallbackParsing(text) of line 737, then Steps 3 and 4
HeuristicStep ==
    /\ pc = "heuristic"
    /\ Fallback(extractedText.text, log)
    /\ UNCHANGED <<env, options, data, extractedText, parked, response>>

HeuristicNext == HeuristicStep

HeuristicSpec == HeuristicInit /\ [][HeuristicNext]_vars

\* ------------------------------------------------------------------------
\* C18, C19
\* ------------------------------------------------------------------------
\* the heuristic extractor ran on text and returned no record
NoRecordFrom(text) ==
    (pc = "done" /\ extractedText.text = text) =>
        /\ result = Failure("NoFrequenciesFound")
        /\ frequencyData = Null

\* the heuristic extractor ran on text and returned exactly one record
OneRecordFrom(text) ==
    (pc = "done" /\ extractedText.text = text) =>
        /\ ~frequencyData.null
        /\ Len(frequencyData.recs) = 1

\* C18: a line whose decimal numbers are not radio frequencies, such as
\* "Page 12.5 of 100.0", yields no record, while the line
\* "Simplex  146.520  146.520  100.0" yields exactly one record with
\* rxFrequency 146.520, txFrequency 146.520 and tone "100.0".
C18_RangeFilter ==
    /\ NoRecordFrom(LinePage)
    /\ OneRecordFrom(LineSimplex)
    /\ (pc = "done" /\ extractedText.text = LineSimplex) =>
           /\ frequencyData.recs[1].rxFreq = StrV(<<"1", "4", "6", ".", "5", "2", "0">>)
           /\ frequencyData.recs[1].txFreq = StrV(<<"1", "4", "6", ".", "5", "2", "0">>)
           /\ frequencyData.recs[1].tone = StrV(<<"1", "0", "0", ".", "0">>)

\* C19: the line "CMD1  Command  155.160  155.160  -  FM  Net control" (the
\* dash an en dash) gives one record with name "Command", rxFrequency
\* 155.160, txFrequency 155.160, tone null and mode "FM", and the csv row
\* "0,Command,155.160000,,0.000000,,88.5,88.5,023,NN,FM,5.00,,<remarks>".
C19_EndToEnd ==
    /\ OneRecordFrom(LineCommand)
    /\ (pc = "done" /\ extractedText.text = LineCommand) =>
           /\ frequencyData.recs[1].name = StrV(<<"C", "o", "m", "m", "a", "n", "d">>)
           /\ frequencyData.recs[1].rxFreq = StrV(<<"1", "5", "5", ".", "1", "6", "0">>)
           /\ frequencyData.recs[1].txFreq = StrV(<<"1", "5", "5", ".", "1", "6", "0">>)
           /\ frequencyData.recs[1].tone = NullV
           /\ frequencyData.recs[1].mode = StrV(<<"F", "M">>)
           /\ result.status = "success"
           /\ Len(CsvLines(result.csv)) = 2
           /\ CsvLines(result.csv)[2]
                  = <<"0", ",", "C", "o", "m", "m", "a", "n", "d", ",", "1", "5", "5", ".", "1", "6", "0", "0", "0", "0", ",", ",", "0", ".", "0", "0", "0", "0", "0", "0", ",", ",", "8", "8", ".", "5", ",", "8", "8", ".", "5", ",", "0", "2", "3", ",", "N", "N", ",", "F", "M", ",", "5", ".", "0", "0", ",", ",">>
                    \o TextOf(frequencyData.recs[1].remarks)

\* ------------------------------------------------------------------------
\* Two conversions in flight: the handlers above run for one conversion at a
\* time, the locals of the other one are kept in parked while it is
\* suspended at an await
\* ------------------------------------------------------------------------
\* the arrays and the texts the replies of the two conversions carry
ConcArrays == {<<>>, <<RecSimplex>>}
ConcKinds == {"callFailed", "noJsonArray", "emptyArray", "array", "-"}
ConcTexts == {LineSimplex, LineNone}

\* the replies received so far are among those
ConcInputs ==
    /\ \A i \in 1..Len(log) : log[i].op \in {"openaiDoc", "openaiText",
                                             "gradientComplete"}
           => log[i].recs \in ConcArrays /\ log[i].kind \in ConcKinds
    /\ data.set => (data.threw \/ data.text \in ConcTexts)

\* Switch with extractedText a variable of the module, shared by the two
\* conversions, instead of a local of each
Switch_SharedText ==
    /\ parked.pc # "none"
    /\ parked' = Suspended(options, pc, frequencyData, data, extractedText,
                           result, log)
    /\ options' = parked.options
    /\ pc' = parked.pc
    /\ frequencyData' = parked.frequencyData
    /\ data' = parked.data
    /\ result' = parked.result
    /\ log' = parked.log
    /\ UNCHANGED <<env, extractedText, response>>

\* the event loop resumes the other conversion: each keeps its own locals,
\* process.env is the same for both
Switch ==
    /\ parked.pc # "none"
    /\ parked' = Suspended(options, pc, frequencyData, data, extractedText,
                           result, log)
    /\ options' = parked.options
    /\ pc' = parked.pc
    /\ frequencyData' = parked.frequencyData
    /\ data' = parked.data
    /\ extractedText' = parked.extractedText
    /\ result' = parked.result
    /\ log' = parked.log
    /\ UNCHANGED <<env, response>>

\* two calls of convertICS205ToChirp, with different options, before either
\* has run
ConcInit ==
    /\ env \in [OPENAI_API_KEY : BOOLEAN, GRADIENT_AI_API_KEY : BOOLEAN]
    /\ options = [has |-> TRUE, filename |-> <<"p", "l", "a", "n", ".", "P", "D", "F">>]
    /\ pc = "start"
    /\ frequencyData = Null
    /\ data = [set |-> FALSE, threw |-> FALSE, text |-> <<>>]
    /\ extractedText = [set |-> FALSE, text |-> <<>>]
    /\ result = Pending
    /\ log = <<>>
    /\ parked = Suspended([has |-> FALSE, filename |-> <<>>], "start", Null,
                          [set |-> FALSE, threw |-> FALSE, text |-> <<>>],
                          [set |-> FALSE, text |-> <<>>], Pending, <<>>)
    /\ response = Failed

ConcNext ==
    \/ Start /\ ConcInputs'
    \/ OpenAIDocReply /\ ConcInputs'
    \/ PdfParseReply /\ ConcInputs'
    \/ OpenAITextReply /\ ConcInputs'
    \/ GetModelReply /\ ConcInputs'
    \/ CompleteModelReply /\ ConcInputs'
    \/ Switch

ConcSpec == ConcInit /\ [][ConcNext]_vars

\* ------------------------------------------------------------------------
\* C20
\* ------------------------------------------------------------------------
\* what a conversion alone returns after the replies recorded in lg
ResultOf(opts, lg) ==
    IF lg = <<>> THEN Failure("ConfigError")
    ELSE IF lg[Len(lg)].op = "pdfParse" THEN Failure("ExtractFailed")
    ELSE IF lg[Len(lg)].op = "heuristic" THEN Failure("NoFrequenciesFound")
    ELSE IF lg[Len(lg)].ev = "fail" THEN Failure("TypeError")
    ELSE Success(convertToChirpCSV(lg[Len(lg) - 2].recs).csv,
                 OutputFilename(Filename(opts)),
                 Len(lg[Len(lg) - 2].recs))

\* the records a conversion alone holds after the replies recorded in lg
FrequencyDataOf(lg) ==
    IF \E i \in 1..Len(lg) : lg[i] = Call("encode")
    THEN Data(lg[Len(lg) - 2].recs)
    ELSE Null

\* the locals c of a conversion depend on its own options, on its own
\* replies (c.data, c.log) and on the configuration only
Own(c) ==
    /\ c.extractedText.set
           => /\ c.data.set /\ ~c.data.threw
              /\ c.extractedText.text = c.data.text
    /\ \A i \in 1..Len(c.log) :
           /\ (c.log[i].op = "heuristic" /\ c.log[i].ev = "ok")
                  => /\ ~fallbackParsing(c.data.text).threw
                     /\ fallbackParsing(c.data.text).recs = c.log[i].recs
           /\ (c.log[i].op = "heuristic" /\ c.log[i].ev = "fail")
                  => fallbackParsing(c.data.text).threw
           /\ c.log[i].op \in {"openaiDoc", "openaiText"}
                  => env.OPENAI_API_KEY
           /\ c.log[i].op \in {"gradientGetModel", "gradientComplete"}
                  => env.GRADIENT_AI_API_KEY
    /\ c.frequencyData = FrequencyDataOf(c.log)
    /\ c.result = IF c.pc = "done" THEN ResultOf(c.options, c.log)
                  ELSE Pending

\* C20: whatever the interleaving of two conversions in flight, the result,
\* the records and the text of each are those it has alone with the same
\* filename, configuration and replies: nothing one writes is read by the
\* other
C20_NoInterference ==
    /\ Own(Suspended(options, pc, frequencyData, data, extractedText,
                     result, log))
    /\ parked.pc # "none" => Own(parked)

\* one conversion has returned the records of the heuristic on its text
\* while the other, with another text, is suspended at its text-mode call
C20_Witness ==
    /\ pc = "done" /\ result.status = "success"
    /\ \E i \in 1..Len(log) : log[i].op = "heuristic" /\ log[i].ev = "ok"
    /\ parked.pc = "openaiText"
    /\ parked.extractedText.set
    /\ parked.extractedText.text # extractedText.text

\* ------------------------------------------------------------------------
\* C21
\* ------------------------------------------------------------------------
\* the lines of text, trimmed
TrimmedLines(text) ==
    [k \in 1..Len(SplitLines(text)) |-> Trim(SplitLines(text)[k])]

\* m is a number of the range [30, 3000]
InRange(m) == IsRadioFreq(ParseFloat(m))

\* the line is not skipped and holds a number of the range
Yields(line) ==
    /\ ~SkipLine(line)
    /\ \E i \in 1..Len(FreqMatches(line)) : InRange(FreqMatches(line)[i])

\* the lines of text that yield a record, in order
YieldingLines(text) == SelectSeq(TrimmedLines(text), Yields)

\* the heuristic extractor has run on the text and the conversion is over
HeuristicRan == pc = "done" /\ extractedText.set

\* C21: the heuristic extractor never returns an empty list: it returns at
\* least one record or fails with NoFrequenciesFound, and it fails exactly
\* when no line of the text yields a record.
C21_NeverEmpty ==
    HeuristicRan =>
        /\ result = Failure("NoFrequenciesFound")
               <=> Len(YieldingLines(extractedText.text)) = 0
        /\ result = Failure("NoFrequenciesFound") => frequencyData = Null
        /\ result # Failure("NoFrequenciesFound")
               => /\ ~frequencyData.null
                  /\ Len(frequencyData.recs) >= 1
                  /\ result.status = "success"

\* the extractor failed on a text whose two lines hold numbers and yield no
\* record
C21_Witness ==
    /\ HeuristicRan
    /\ extractedText.text = Join(<<LineNone, LineShort>>, Newline)
    /\ result = Failure("NoFrequenciesFound")

\* ------------------------------------------------------------------------
\* C22
\* ------------------------------------------------------------------------
\* the index in m of the first number of the range after index i
NextInRange(m, i) ==
    CHOOSE j \in (i + 1)..Len(m) :
        InRange(m[j]) /\ \A h \in (i + 1)..(j - 1) : ~InRange(m[h])

\* m has a number of the range after index i
HasInRange(m, i) == \E j \in (i + 1)..Len(m) : InRange(m[j])

\* rec holds the first number of the range of m, at index i, and the second
\* one when there is one
FrequenciesFrom(rec, m, i) ==
    /\ rec.rxFreq = StrV(m[i])
    /\ rec.txFreq = IF HasInRange(m, i) THEN StrV(m[NextInRange(m, i)])
                    ELSE rec.rxFreq
    /\ InRange(TextOf(rec.rxFreq))
    /\ InRange(TextOf(rec.txFreq))

\* the records of the extractor are one for each yielding line, in order
OneRecordPerLine ==
    /\ ~frequencyData.null
    /\ Len(frequencyData.recs) = Len(YieldingLines(extractedText.text))

\* C22: in every record the extractor emits from a line, rxFrequency is the
\* first frequency-shaped number of the line that lies in [30, 3000],
\* txFrequency is the second such number when there is one and rxFrequency
\* otherwise; a number outside [30, 3000] is used for neither.
C22_RxTx ==
    (HeuristicRan /\ result.status = "success") =>
        /\ OneRecordPerLine
        /\ \A k \in 1..Len(frequencyData.recs) :
               \A m \in {FreqMatches(YieldingLines(extractedText.text)[k])} :
                   FrequenciesFrom(frequencyData.recs[k], m,
                                   NextInRange(m, 0))

\* the record of a line whose numbers are 12.5, 462.5625, 3500.5, 467.5625
\* and 300.0
C22_Witness ==
    /\ HeuristicRan
    /\ extractedText.text = LineMixed
    /\ result.status = "success"
    /\ frequencyData.recs[1].rxFreq = StrV(<<"4", "6", "2", ".", "5", "6", "2", "5">>)
    /\ frequencyData.recs[1].txFreq = StrV(<<"4", "6", "7", ".", "5", "6", "2", "5">>)

\* ------------------------------------------------------------------------
\* C23
\* ------------------------------------------------------------------------
\* t is n digits, a point and one digit
ToneShapedWith(t, n) ==
    /\ Len(t) = n + 2
    /\ \A i \in 1..n : IsDigit(t[i])
    /\ t[n + 1] = "."
    /\ IsDigit(t[n + 2])

\* t has the shape of a tone: 2 or 3 digits, a point and one digit
ToneShaped(t) == ToneShapedWith(t, 2) \/ ToneShapedWith(t, 3)

\* the value of t lies in the CTCSS range [67, 254.1]
InToneRange(t) ==
    /\ Le(Num(67, 0), ParseFloat(t))
    /\ Le(ParseFloat(t), Num(254, 100000))

\* the tone of rec is null or a tone of the range written on the line
ToneFrom(rec, line) ==
    \/ rec.tone = NullV
    \/ /\ rec.tone.t = "str"
       /\ ToneShaped(rec.tone.s)
       /\ Includes(line, rec.tone.s)
       /\ InToneRange(rec.tone.s)

\* C23: in every record the extractor emits, tone is null or a tone-shaped
\* number of the same line whose value lies in [67, 254.1]; a tone-shaped
\* number outside that range is never stored as tone.
C23_ToneRange ==
    (HeuristicRan /\ result.status = "success") =>
        /\ OneRecordPerLine
        /\ \A k \in 1..Len(frequencyData.recs) :
               ToneFrom(frequencyData.recs[k],
                        YieldingLines(extractedText.text)[k])

\* a line with the tone-shaped numbers 12.5 and 300.0, both outside the
\* range, gives a record without tone
C23_Witness ==
    /\ HeuristicRan
    /\ extractedText.text = LineMixed
    /\ result.status = "success"
    /\ frequencyData.recs[1].tone = NullV

\* ------------------------------------------------------------------------
\* C24
\* ------------------------------------------------------------------------
\* the line is one of those that give no record whatever they hold
Skipped(line) ==
    \/ Len(line) < 5
    \/ /\ Includes(ToLowerCase(line), <<"f", "r", "e", "q", "u", "e", "n", "c", "y">>)
       /\ Includes(ToLowerCase(line), <<"c", "h", "a", "n", "n", "e", "l">>)
    \/ Includes(ToLowerCase(line), <<"r", "a", "d", "i", "o", " ", "c", "o", "m", "m", "u", "n", "i", "c", "a", "t", "i", "o", "n", "s", " ", "p", "l", "a", "n">>)

\* the line is not one of those and holds a number of the range
Kept(line) ==
    /\ ~Skipped(line)
    /\ \E i \in 1..Len(FreqMatches(line)) : InRange(FreqMatches(line)[i])

\* the lines of text that are not skipped and hold a number of the range
KeptLines(text) == SelectSeq(TrimmedLines(text), Kept)

\* the name found at the beginning of the line, before any default
BaseName(line) ==
    Trim(StripLeading(Trim(FirstSegment(Substring(line, 0, 30)))))

\* some line of text is skipped although it holds a number of the range
HasSkippedFrequency(text) ==
    \E k \in 1..Len(TrimmedLines(text)) :
        /\ Skipped(TrimmedLines(text)[k])
        /\ \E i \in 1..Len(FreqMatches(TrimmedLines(text)[k])) :
               InRange(FreqMatches(TrimmedLines(text)[k])[i])

\* C24: a line shorter than 5 characters after trimming, a line that holds
\* both "frequency" and "channel" in any case, and a line that holds "radio
\* communications plan" give no record even when they hold a valid
\* frequency, and they do not advance the count used for "Channel n".
C24_SkippedLines ==
    HeuristicRan =>
        /\ result = Failure("NoFrequenciesFound")
               <=> Len(KeptLines(extractedText.text)) = 0
        /\ result.status = "success" =>
               /\ Len(frequencyData.recs) = Len(KeptLines(extractedText.text))
               /\ \A k \in 1..Len(frequencyData.recs) :
                      \A line \in {KeptLines(extractedText.text)[k]} :
                          /\ Includes(line, TextOf(frequencyData.recs[k].rxFreq))
                          /\ Len(BaseName(line)) < 2
                                 => frequencyData.recs[k].name
                                        = StrV(ChannelN(k))

\* a header line with a valid frequency, then a line without a name: one
\* record, named "Channel 1"
C24_Witness ==
    /\ HeuristicRan
    /\ extractedText.text = Join(<<LineHeader, LineBare>>, Newline)
    /\ HasSkippedFrequency(extractedText.text)
    /\ Len(frequencyData.recs) = 1
    /\ frequencyData.recs[1].name = StrV(<<"C", "h", "a", "n", "n", "e", "l", " ", "1">>)

\* ------------------------------------------------------------------------
\* C29
\* ------------------------------------------------------------------------
\* the index in m of the first number that has the shape of a tone
FirstToneShaped(m) ==
    CHOOSE j \in 1..Len(m) :
        ToneShaped(m[j]) /\ \A h \in 1..(j - 1) : ~ToneShaped(m[h])

\* the index in m of the number stored as txFrequency, i being the index of
\* the one stored as rxFrequency
TxIndex(m, i) == IF HasInRange(m, i) THEN NextInRange(m, i) ELSE i

\* the tone of rec is not the occurrence stored as rxFrequency or as
\* txFrequency, m being the numbers of the line
ToneApart(rec, m) ==
    rec.tone # NullV =>
        /\ FirstToneShaped(m) # NextInRange(m, 0)
        /\ FirstToneShaped(m) # TxIndex(m, NextInRange(m, 0))

\* C29: in every record the extractor emits, the number stored as tone is
\* another occurrence on the line than those stored as rxFrequency and
\* txFrequency: a tone such as 100.0 after a single frequency is never
\* taken as txFrequency.
C29_ToneNotFrequency ==
    (HeuristicRan /\ result.status = "success") =>
        \A k \in 1..Len(frequencyData.recs) :
            ToneApart(frequencyData.recs[k],
                      FreqMatches(YieldingLines(extractedText.text)[k]))

\* ------------------------------------------------------------------------
\* The handling of one reply on its own: each of the three model calls is
\* pending and settles with response
\* ------------------------------------------------------------------------
\* the log of a conversion that waits for the reply of the model call op,
\* the earlier calls having failed
LogBefore(op) ==
    IF op = "openaiDoc" THEN <<Call("openaiDoc")>>
    ELSE IF op = "openaiText"
    THEN <<Call("openaiDoc"), Fail("openaiDoc", "callFailed"),
           Call("pdfParse"), Ok("pdfParse", "-", <<>>), Call("openaiText")>>
    ELSE <<Call("openaiDoc"), Fail("openaiDoc", "callFailed"),
           Call("pdfParse"), Ok("pdfParse", "-", <<>>), Call("openaiText"),
           Fail("openaiText", "callFailed"), Call("gradientGetModel"),
           Ok("gradientGetModel", "-", <<>>), Call("gradientComplete")>>

\* where the conversion waits for the reply of op
PcOf(op) == IF op = "gradientComplete" THEN "completeModel" ELSE op

\* a conversion with both credentials waits for the reply of one of the
\* three model calls; the reply is response
ReplyInit ==
    /\ env = [OPENAI_API_KEY |-> TRUE, GRADIENT_AI_API_KEY |-> TRUE]
    /\ options = [has |-> FALSE, filename |-> <<>>]
    /\ \E op \in {"openaiDoc", "openaiText", "gradientComplete"} :
           /\ pc = PcOf(op)
           /\ log = LogBefore(op)
           /\ data = IF op = "openaiDoc"
                     THEN [set |-> FALSE, threw |-> FALSE, text |-> <<>>]
                     ELSE [set |-> TRUE, threw |-> FALSE, text |-> LineSimplex]
           /\ extractedText = IF op = "openaiDoc"
                              THEN [set |-> FALSE, text |-> <<>>]
                              ELSE [set |-> TRUE, text |-> LineSimplex]
    /\ frequencyData = Null
    /\ result = Pending
    /\ parked = NoCall
    /\ response \in Replies

ReplyNext ==
    \/ OpenAIDocReplyOf(response)
    \/ OpenAITextReplyOf(response)
    \/ CompleteModelReplyOf(response)

ReplySpec == ReplyInit /\ [][ReplyNext]_vars

\* ------------------------------------------------------------------------
\* C25
\* ------------------------------------------------------------------------
\* c[i] .. c[j] is a well-formed array: "[", values, "]"
WellFormedAt(c, i, j) ==
    /\ i < j
    /\ c[i] = LBracket
    /\ c[j] = RBracket
    /\ \A k \in (i + 1)..(j - 1) : c[k].tok = "v"

\* the pairs of positions of the well-formed arrays of c
WellFormed(c) ==
    {p \in (1..Len(c)) \X (1..Len(c)) : WellFormedAt(c, p[1], p[2])}

\* the first well-formed array of c
FirstWellFormed(c) ==
    CHOOSE p \in WellFormed(c) : \A q \in WellFormed(c) : p[1] <= q[1]

\* the elements of the array between the positions p of c
ElementsAt(c, p) == [k \in 1..(p[2] - p[1] - 1) |-> c[p[1] + k].e]

\* the model calls whose reply is searched for an array
ParseOps == {"openaiDoc", "openaiText", "gradientComplete"}

\* the index in the log of the outcome of the model call made last
OutcomeIndex ==
    1 + CHOOSE i \in 1..Len(log) :
            /\ log[i].ev = "call" /\ log[i].op \in ParseOps
            /\ \A j \in (i + 1)..Len(log) :
                   log[j].ev # "call" \/ log[j].op \notin ParseOps

\* the reply was a completion and has been handled
Handled == ~response.err /\ OutcomeIndex <= Len(log)

\* the outcome e of a reply whose first well-formed array is arr
Recovered(e, arr) ==
    /\ e.kind = IF arr = <<>> THEN "emptyArray" ELSE "array"
    /\ e.ev = "ok" => e.recs = arr

\* C25: whenever a reply holds a well-formed JSON array, whatever text,
\* bracketed text or code fence is around it, the first well-formed array
\* is the one that is parsed; a malformed response (no array found, or a
\* parse error) is reported only when the reply holds no well-formed array.
C25_FirstWellFormedArray ==
    Handled =>
        /\ WellFormed(response.completion) # {}
               => Recovered(log[OutcomeIndex],
                            ElementsAt(response.completion,
                                       FirstWellFormed(response.completion)))
        /\ log[OutcomeIndex].kind \in {"noJsonArray", "syntaxError"}
               => WellFormed(response.completion) = {}

\* ------------------------------------------------------------------------
\* C26
\* ------------------------------------------------------------------------
\* each model call is made at most once and the heuristic extractor at most
\* twice
AttemptsBounded ==
    /\ \A op \in ParseOps : CallCount(op) <= 1
    /\ CallCount("heuristic") <= 2

\* C26: if every outbound call settles, every conversion ends, in exactly
\* one of success and failure, and nothing runs after that; the tiers are
\* attempted a bounded number of times.
C26_Terminates ==
    /\ <>(pc = "done")
    /\ [](pc = "done" => result.status \in {"success", "failure"})
    /\ [](pc # "done" => result = Pending)
    /\ [][pc # "done"]_vars
    /\ []AttemptsBounded

\* a conversion that ended after it went through every tier
C26_Witness ==
    /\ pc = "done"
    /\ result.status = "failure"
    /\ \A op \in TierOps : CallCount(op) >= 1

\* ------------------------------------------------------------------------
\* C28
\* ------------------------------------------------------------------------
\* C28: the heuristic extractor runs at most once in a conversion, on every
\* path through parseICS205WithAI, the path on which the Gradient reply has
\* no JSON array and the extractor then fails included.
C28_HeuristicOnce == CallCount("heuristic") <= 1

\* ------------------------------------------------------------------------
\* C30
\* ------------------------------------------------------------------------
\* C30: no call is made to a backend whose credential is absent: without
\* OPENAI_API_KEY no document-mode and no text-mode call, without
\* GRADIENT_AI_API_KEY no Gradient call, on every path.
C30_NoCallWithoutCredential ==
    /\ ~env.OPENAI_API_KEY
           => ~Called("openaiDoc") /\ ~Called("openaiText")
    /\ ~env.GRADIENT_AI_API_KEY
           => ~Called("gradientGetModel") /\ ~Called("gradientComplete")

\* with OPENAI_API_KEY only, both OpenAI calls failed and the conversion
\* ended with the heuristic extractor
C30_Witness ==
    /\ env.OPENAI_API_KEY /\ ~env.GRADIENT_AI_API_KEY
    /\ Threw("openaiDoc") /\ Threw("openaiText")
    /\ Called("heuristic")
    /\ pc = "done"

\* ------------------------------------------------------------------------
\* C27
\* ------------------------------------------------------------------------
\* the row written for the record at 1-based position k of recs
RowOf(recs, k) == Join(RowFields(recs[k], k - 1), Comma)

\* C27: every data row of convertToChirpCSV has exactly 14 comma-separated
\* fields, as the header has, whatever strings the name, tone, mode and
\* remarks of the record are, strings with commas included.
C27_FourteenFields ==
    Encoded =>
        /\ result.csv = FullCsv(frequencyData.recs)
        /\ Len(SplitOn(Join(HeaderColumns, Comma), ",")) = 14
        /\ \A k \in 1..Len(frequencyData.recs) :
               Len(SplitOn(RowOf(frequencyData.recs, k), ",")) = 14

====
